---- MODULE Spec2Model ----
(***************************************************************************)
(* Model of package wrpzap (observer.go, fields.go): an Observer that      *)
(* turns one wrp.Message into one zap log entry made of the fields its     *)
(* configured FieldOpts extract.                                           *)
(*                                                                         *)
(* Go values are modelled as follows:                                      *)
(*   string            a sequence of characters (<<>> is "")               *)
(*   *int64            [isNil, val]                                        *)
(*   []string, []byte  [isNil, elems]   (a nil slice has no elements)      *)
(*   map[string]string [isNil, kv]      (kv: a set of <<key, value>>)      *)
(*   interface{}       [dyn] for nil, [dyn, val] otherwise                 *)
(*   zap.Field         [Key, Type, Integer, String, Interface]             *)
(*   FieldOpt          the name of the constructor that returned it        *)
(***************************************************************************)
EXTENDS Integers, Sequences, FiniteSets, TLC

\* ------------------------------------------------------------------ bounds

\* Longest Observer.Fields list drawn at construction.
MaxFields == 2
\* Calls of ObserveWRP made in one behaviour (all goroutines together).
MaxCalls == 2
\* Goroutines calling ObserveWRP on the same Observer in SpecConc.
NumGoroutines == 2
\* Messages carry lists of up to MaxLen entries (payloads of 2 * MaxLen bytes).
MaxLen == 1

\* ------------------------------------------------------- fields.go: names

fMsgType == "msg_type"
fSource == "source"
\* A slip in the constant: the Go attribute's name instead of its JSON name.
fDestination_GoName == "destination"

fDestination == "dest"
fTransactionUUID == "transaction_uuid"
fContentType == "content_type"
fAccept == "accept"
fStatus == "status"
fRequestDeliveryResponse == "rdr"
fHeaders == "headers"
fMetadata == "metadata"
fPath == "path"
fPayload == "payload"
fPayloadSize == "payload_size"
fServiceName == "service_name"
fURL == "url"
fPartnerIDs == "partner_ids"
fSessionID == "session_id"
fQualityOfService == "qos"

\* ------------------------------------------------------------- Go values

EmptyString == << >>

NilPtr == [isNil |-> TRUE, val |-> 0]
Ptr(v) == [isNil |-> FALSE, val |-> v]

NilSlice == [isNil |-> TRUE, elems |-> << >>]
Slice(s) == [isNil |-> FALSE, elems |-> s]

NilMap == [isNil |-> TRUE, kv |-> {}]
Map(kv) == [isNil |-> FALSE, kv |-> kv]

\* Go's builtin len on a slice: 0 for a nil slice.
GoLen(s) == Len(s.elems)

NilInterface == [dyn |-> "nil"]
Iface(t, v) == [dyn |-> t, val |-> v]

\* ------------------------------------------------------------ wrp.Message

\* A string of n characters that names the attribute holding it, so that two
\* attributes of one message never hold the same non-empty string.
Str(attr, n) == [i \in 1..n |-> attr]

\* The messages ObserveWRP is called with (wrp.Message attributes the package
\* reads; Spans and IncludeSpans are never read).  populated = FALSE, n = 0 is
\* Go's zero value wrp.Message{}: nil pointers, nil slices, a nil map.
\* populated = TRUE, n = 0 sets every optional attribute to a non-nil empty or
\* zero value (Status and RequestDeliveryResponse point to 0).
MkMessage(populated, n) ==
    [ Type                    |-> (IF populated THEN 3 ELSE 0) + n,
      Source                  |-> Str("Source", n),
      Destination             |-> Str("Destination", n),
      TransactionUUID         |-> Str("TransactionUUID", n),
      ContentType             |-> Str("ContentType", n),
      Accept                  |-> Str("Accept", n),
      Status                  |-> IF populated THEN Ptr(100 * n) ELSE NilPtr,
      RequestDeliveryResponse |-> IF populated THEN Ptr(7 * n) ELSE NilPtr,
      Headers                 |-> IF populated \/ n > 0
                                    THEN Slice([i \in 1..n |-> Str("header", i)])
                                    ELSE NilSlice,
      Metadata                |-> IF populated \/ n > 0
                                    THEN Map({<<Str("key", i), Str("value", i)>> : i \in 1..n})
                                    ELSE NilMap,
      Path                    |-> Str("Path", n),
      Payload                 |-> IF populated \/ n > 0
                                    THEN Slice([i \in 1..(2 * n) |-> 64 + i])
                                    ELSE NilSlice,
      ServiceName             |-> Str("ServiceName", n),
      URL                     |-> Str("URL", n),
      PartnerIDs              |-> IF populated \/ n > 0
                                    THEN Slice([i \in 1..n |-> Str("partner", i)])
                                    ELSE NilSlice,
      SessionID               |-> Str("SessionID", n),
      QualityOfService        |-> (IF populated THEN 25 ELSE 0) + 10 * n ]

Messages == {MkMessage(populated, n) : populated \in BOOLEAN, n \in 0..MaxLen}

\* ------------------------------------------------- zap field constructors

\* The zero zap.Field with a key and a type; each constructor fills one slot.
Field(key, type) ==
    [Key |-> key, Type |-> type, Integer |-> 0, String |-> EmptyString,
     Interface |-> NilInterface]

\* zap.Int(key, val): Int64(key, int64(val)).
ZapInt(key, val) == [Field(key, "Int64Type") EXCEPT !.Integer = val]

\* zap.String(key, val).
ZapString(key, val) == [Field(key, "StringType") EXCEPT !.String = val]

\* zap.Stringer(key, val): keeps the value; String() is called when encoding.
ZapStringer(key, t, val) ==
    [Field(key, "StringerType") EXCEPT !.Interface = Iface(t, val)]

\* zap.Reflect(key, val).
ZapReflect(key, iface) == [Field(key, "ReflectType") EXCEPT !.Interface = iface]

\* zap.Int64p(key, val): a nil pointer gives Reflect(key, nil), else Int64(key, *val).
ZapInt64p(key, p) ==
    IF p.isNil THEN ZapReflect(key, NilInterface)
    ELSE [Field(key, "Int64Type") EXCEPT !.Integer = p.val]

\* zap.Strings(key, ss): Array(key, stringArray(ss)).
ZapStrings(key, ss) ==
    [Field(key, "ArrayMarshalerType") EXCEPT !.Interface = Iface("stringArray", ss)]

\* zap.Binary(key, val).
ZapBinary(key, val) ==
    [Field(key, "BinaryType") EXCEPT !.Interface = Iface("[]byte", val)]

\* zap.Any(key, val) with val a map[string]string: no typed case, Reflect(key, val).
ZapAny(key, val) == ZapReflect(key, Iface("map[string]string", val))

\* --------------------------------------------- observer.go: the FieldOpts

LogMessageTypeAsString(msg) == ZapStringer(fMsgType, "wrp.MessageType", msg.Type)

LogMessageTypeAsNum(msg) == ZapInt(fMsgType, msg.Type)

LogMessageType(msg) == LogMessageTypeAsNum(msg)

LogSource(msg) == ZapString(fSource, msg.Source)

\* A copy-and-paste slip: the destination field filled from the source.
LogDestination_FromSource(msg) == ZapString(fDestination, msg.Source)

LogDestination(msg) == ZapString(fDestination, msg.Destination)

LogTransactionUUID(msg) == ZapString(fTransactionUUID, msg.TransactionUUID)

LogContentType(msg) == ZapString(fContentType, msg.ContentType)

LogAccept(msg) == ZapString(fAccept, msg.Accept)

\* A nil status dereferenced to 0 instead of kept as nil.
LogStatus_ZeroForNil(msg) ==
    ZapInt(fStatus, IF msg.Status.isNil THEN 0 ELSE msg.Status.val)

LogStatus(msg) == ZapInt64p(fStatus, msg.Status)

LogRequestDeliveryResponse(msg) ==
    ZapInt64p(fRequestDeliveryResponse, msg.RequestDeliveryResponse)

LogHeaders(msg) == ZapStrings(fHeaders, msg.Headers)

LogMetadata(msg) == ZapAny(fMetadata, msg.Metadata)

LogPath(msg) == ZapString(fPath, msg.Path)

LogPayload(msg) == ZapBinary(fPayload, msg.Payload)

\* The size taken of the wrong slice.
LogPayloadSize_OfHeaders(msg) == ZapInt(fPayloadSize, GoLen(msg.Headers))

LogPayloadSize(msg) == ZapInt(fPayloadSize, GoLen(msg.Payload))

LogServiceName(msg) == ZapString(fServiceName, msg.ServiceName)

LogURL(msg) == ZapString(fURL, msg.URL)

LogPartnerIDs(msg) == ZapStrings(fPartnerIDs, msg.PartnerIDs)

LogSessionID(msg) == ZapString(fSessionID, msg.SessionID)

LogQualityOfService(msg) == ZapInt(fQualityOfService, msg.QualityOfService)

\* The exported FieldOpt constructors, in source order.
AllFieldOpts ==
    << "LogMessageType", "LogMessageTypeAsString", "LogMessageTypeAsNum",
       "LogSource", "LogDestination", "LogTransactionUUID", "LogContentType",
       "LogAccept", "LogStatus", "LogRequestDeliveryResponse", "LogHeaders",
       "LogMetadata", "LogPath", "LogPayload", "LogPayloadSize",
       "LogServiceName", "LogURL", "LogPartnerIDs", "LogSessionID",
       "LogQualityOfService" >>

\* field(msg): the call of a FieldOpt closure on a message.
Apply(opt, msg) ==
    CASE opt = "LogMessageType"             -> LogMessageType(msg)
      [] opt = "LogMessageTypeAsString"     -> LogMessageTypeAsString(msg)
      [] opt = "LogMessageTypeAsNum"        -> LogMessageTypeAsNum(msg)
      [] opt = "LogSource"                  -> LogSource(msg)
      [] opt = "LogDestination"             -> LogDestination(msg)
      [] opt = "LogTransactionUUID"         -> LogTransactionUUID(msg)
      [] opt = "LogContentType"             -> LogContentType(msg)
      [] opt = "LogAccept"                  -> LogAccept(msg)
      [] opt = "LogStatus"                  -> LogStatus(msg)
      [] opt = "LogRequestDeliveryResponse" -> LogRequestDeliveryResponse(msg)
      [] opt = "LogHeaders"                 -> LogHeaders(msg)
      [] opt = "LogMetadata"                -> LogMetadata(msg)
      [] opt = "LogPath"                    -> LogPath(msg)
      [] opt = "LogPayload"                 -> LogPayload(msg)
      [] opt = "LogPayloadSize"             -> LogPayloadSize(msg)
      [] opt = "LogServiceName"             -> LogServiceName(msg)
      [] opt = "LogURL"                     -> LogURL(msg)
      [] opt = "LogPartnerIDs"              -> LogPartnerIDs(msg)
      [] opt = "LogSessionID"               -> LogSessionID(msg)
      [] opt = "LogQualityOfService"        -> LogQualityOfService(msg)

\* ------------------------------------------------ observer.go: Observer

NilLogger == "nil"
Loggers == {NilLogger, "logger"}
Levels == {"InfoLevel", "ErrorLevel"}
Labels == {"test message", "m"}

Reverse(s) == [i \in 1..Len(s) |-> s[Len(s) + 1 - i]]

\* The Fields lists an Observer is built with: every run of up to MaxFields
\* constructors that are neighbours in the source, in source order and reversed
\* (every FieldOpt alone, every neighbouring pair in both orders, and no
\* FieldOpt at all).
FieldLists ==
    LET last == Len(AllFieldOpts)
        ends == {<<i, j>> \in (1..last) \X (0..last) : j - i + 1 \in 0..MaxFields}
        runs == {SubSeq(AllFieldOpts, e[1], e[2]) : e \in ends}
    IN  runs \cup {Reverse(r) : r \in runs}

\* Observer{Logger, Level, Message, Fields} values.
Observers ==
    [Logger : Loggers, Level : Levels, Message : Labels, Fields : FieldLists]

\* The Observers the concurrent callers share: two Fields lists, each telling
\* every two messages apart.
ConcObservers ==
    [Logger : Loggers, Level : {"InfoLevel"}, Message : {"test message"},
     Fields : {<<"LogSource", "LogStatus">>,
               <<"LogMessageTypeAsString", "LogHeaders", "LogPayloadSize">>}]

VARIABLES
    observer,   \* the caller's Observer value
    pc,         \* per goroutine: "idle", or its place in ObserveWRP
    ob,         \* per goroutine: the receiver, a copy of the Observer
    msg,        \* per goroutine: the msg parameter, a copy of the message
    fields,     \* per goroutine: the local slice fields
    idx,        \* per goroutine: the place of the range loop in ob.Fields
    recorded,   \* the entries the Logger has been given, in order
    calls       \* calls of ObserveWRP made so far

vars == <<observer, pc, ob, msg, fields, idx, recorded, calls>>

Goroutines == DOMAIN pc

\* Calls that have returned.
Returned == calls - Cardinality({g \in Goroutines : pc[g] # "idle"})

\* A goroutine that is not inside ObserveWRP has no frame: its locals hold the
\* zero values.
NoFrame(o) ==
    [ob |-> o, msg |-> MkMessage(FALSE, 0), fields |-> << >>, idx |-> 1]

InitWith(observers, n) ==
    /\ observer \in observers
    /\ pc = [g \in 1..n |-> "idle"]
    /\ ob = [g \in 1..n |-> NoFrame(observer).ob]
    /\ msg = [g \in 1..n |-> NoFrame(observer).msg]
    /\ fields = [g \in 1..n |-> NoFrame(observer).fields]
    /\ idx = [g \in 1..n |-> NoFrame(observer).idx]
    /\ recorded = << >>
    /\ calls = 0

\* One caller, any Observer.
Init == InitWith(Observers, 1)

\* NumGoroutines callers sharing one Observer.
InitConc == InitWith(ConcObservers, NumGoroutines)

\* The nil check left out.
LoggerIsNil_Never(o) == FALSE

\* if ob.Logger == nil
LoggerIsNil(o) == o.Logger = NilLogger

\* The new field put in front of the others.
AppendField_Prepend(fs, f) == <<f>> \o fs

\* A field whose key is already present is dropped.
AppendField_DedupByKey(fs, f) ==
    IF \E i \in DOMAIN fs : fs[i].Key = f.Key THEN fs ELSE Append(fs, f)

\* A field holding an empty list or map is left out, as omitempty would.
AppendField_OmitEmpty(fs, f) ==
    IF \/ f.Type = "ArrayMarshalerType" /\ GoLen(f.Interface.val) = 0
       \/ /\ f.Type = "ReflectType"
          /\ f.Interface.dyn = "map[string]string"
          /\ f.Interface.val.kv = {}
    THEN fs
    ELSE Append(fs, f)

\* fields = append(fields, f)
AppendField(fs, f) == Append(fs, f)

\* The level hard-wired instead of taken from the Observer.
LogEntry_AlwaysInfo(o, fs) ==
    [Level |-> "InfoLevel", Message |-> o.Message, Context |-> fs]

\* The entry ob.Logger.Log(ob.Level, ob.Message, fields...) hands to the Logger.
LogEntry(o, fs) == [Level |-> o.Level, Message |-> o.Message, Context |-> fs]

\* The variable is shared by all calls (a package-level buffer) instead of
\* local to the call.
SetLocal_Shared(store, g, v) == [h \in DOMAIN store |-> v]

\* A write to a local variable of goroutine g's frame.
SetLocal(store, g, v) == [store EXCEPT ![g] = v]

\* The frame of goroutine g is popped.
Return(g) ==
    /\ pc' = [pc EXCEPT ![g] = "idle"]
    /\ ob' = SetLocal(ob, g, NoFrame(observer).ob)
    /\ msg' = SetLocal(msg, g, NoFrame(observer).msg)
    /\ fields' = SetLocal(fields, g, NoFrame(observer).fields)
    /\ idx' = SetLocal(idx, g, NoFrame(observer).idx)

\* ob.ObserveWRP(m): the value receiver and the message are copied in.
Call(g, m) ==
    /\ pc[g] = "idle"
    /\ calls < MaxCalls
    /\ calls' = calls + 1
    /\ pc' = [pc EXCEPT ![g] = "check"]
    /\ ob' = SetLocal(ob, g, observer)
    /\ msg' = SetLocal(msg, g, m)
    /\ UNCHANGED <<observer, fields, idx, recorded>>

\* if ob.Logger == nil { return }
ReturnNoLogger(g) ==
    /\ pc[g] = "check"
    /\ LoggerIsNil(ob[g])
    /\ Return(g)
    /\ UNCHANGED <<observer, recorded, calls>>

\* fields := make([]zap.Field, 0, len(ob.Fields)), and the range loop starts.
MakeFields(g) ==
    /\ pc[g] = "check"
    /\ ~LoggerIsNil(ob[g])
    /\ fields' = SetLocal(fields, g, << >>)
    /\ idx' = SetLocal(idx, g, 1)
    /\ pc' = [pc EXCEPT ![g] = "range"]
    /\ UNCHANGED <<observer, ob, msg, recorded, calls>>

\* One iteration: fields = append(fields, field(msg)).
RangeStep(g) ==
    /\ pc[g] = "range"
    /\ idx[g] <= Len(ob[g].Fields)
    /\ fields' = SetLocal(fields, g,
                    AppendField(fields[g], Apply(ob[g].Fields[idx[g]], msg[g])))
    /\ idx' = SetLocal(idx, g, idx[g] + 1)
    /\ UNCHANGED <<observer, pc, ob, msg, recorded, calls>>

\* The range loop is over.
RangeDone(g) ==
    /\ pc[g] = "range"
    /\ idx[g] > Len(ob[g].Fields)
    /\ pc' = [pc EXCEPT ![g] = "log"]
    /\ UNCHANGED <<observer, ob, msg, fields, idx, recorded, calls>>

\* ob.Logger.Log(ob.Level, ob.Message, fields...), and the call returns.
Log(g) ==
    /\ pc[g] = "log"
    /\ recorded' = Append(recorded, LogEntry(ob[g], fields[g]))
    /\ Return(g)
    /\ UNCHANGED <<observer, calls>>

Next ==
    \/ \E g \in Goroutines, m \in Messages : Call(g, m)
    \/ \E g \in Goroutines : ReturnNoLogger(g)
    \/ \E g \in Goroutines : MakeFields(g)
    \/ \E g \in Goroutines : RangeStep(g)
    \/ \E g \in Goroutines : RangeDone(g)
    \/ \E g \in Goroutines : Log(g)

Spec == Init /\ [][Next]_vars

SpecConc == InitConc /\ [][Next]_vars

\* ===================================================================
\* Properties
\* ===================================================================

\* The goroutines inside ObserveWRP past the Logger check.
Extracting == {g \in Goroutines : pc[g] \in {"range", "log"}}

\* The entry a call of ObserveWRP(m) on Observer o is to emit: the level and
\* the label of o, and the output of the i-th FieldOpt of o.Fields on m as the
\* i-th field.
Expected(o, m) ==
    [Level |-> o.Level, Message |-> o.Message,
     Context |-> [i \in 1..Len(o.Fields) |-> Apply(o.Fields[i], m)]]

\* A step in which goroutine g returns from ObserveWRP.
Returns(g) == pc[g] # "idle" /\ pc'[g] = "idle"

\* The frame of goroutine g.
Frame(g) == <<pc[g], ob[g], msg[g], fields[g], idx[g]>>

\* ------------------------------------------------------------------- C1

\* C1: an Observer whose Logger is nil emits nothing: whatever calls have been
\* made, the Logger's record log is empty and no call got past the nil check.
C1_NilLoggerEmitsNothing ==
    observer.Logger = NilLogger =>
        /\ recorded = << >>
        /\ \A g \in Goroutines : pc[g] \in {"idle", "check"}

\* Two calls on a nil-Logger Observer with FieldOpts configured have returned.
C1_Witness ==
    /\ observer.Logger = NilLogger
    /\ observer.Fields # << >>
    /\ Returned >= 2

\* ------------------------------------------------------------------- C2

\* C2: with a Logger configured, every call that returns has appended exactly
\* one entry, whose fields are the outputs of the N configured FieldOpts on the
\* call's own message in configured order (N = 0 included); no other step
\* touches the log, and after k returned calls the log holds k entries.
C2_OneRecordPerCall ==
    [][ observer.Logger # NilLogger =>
          /\ \A g \in Goroutines :
                Returns(g) =>
                    /\ recorded' = Append(recorded, Expected(observer, msg[g]))
                    /\ Len(recorded'[Len(recorded')].Context) = Len(observer.Fields)
          /\ (\A g \in Goroutines : ~Returns(g)) => recorded' = recorded
          /\ Len(recorded') = Returned' ]_vars

\* Two calls with different messages have been logged by an Observer with at
\* least two FieldOpts.
C2_Witness ==
    /\ Len(observer.Fields) >= 2
    /\ Len(recorded) = 2
    /\ Returned = 2
    /\ recorded[1].Context # recorded[2].Context
    /\ Len(recorded[2].Context) = Len(observer.Fields)

\* ------------------------------------------------------------------- C3

\* C3: every entry in the log carries the Observer's Level and Message.
C3_LevelAndLabel ==
    \A k \in DOMAIN recorded :
        /\ recorded[k].Level = observer.Level
        /\ recorded[k].Message = observer.Message

\* Two entries with different fields, logged at ErrorLevel under the label "m".
C3_Witness ==
    /\ observer.Level = "ErrorLevel"
    /\ observer.Message = "m"
    /\ Len(recorded) = 2
    /\ recorded[1].Context # recorded[2].Context

\* ------------------------------------------------------------------- C4

\* The catalog: the field name each FieldOpt is to emit.
NameOf(opt) ==
    CASE opt \in {"LogMessageType", "LogMessageTypeAsString", "LogMessageTypeAsNum"}
                                            -> "msg_type"
      [] opt = "LogSource"                  -> "source"
      [] opt = "LogDestination"             -> "dest"
      [] opt = "LogTransactionUUID"         -> "transaction_uuid"
      [] opt = "LogContentType"             -> "content_type"
      [] opt = "LogAccept"                  -> "accept"
      [] opt = "LogStatus"                  -> "status"
      [] opt = "LogRequestDeliveryResponse" -> "rdr"
      [] opt = "LogHeaders"                 -> "headers"
      [] opt = "LogMetadata"                -> "metadata"
      [] opt = "LogPath"                    -> "path"
      [] opt = "LogPayload"                 -> "payload"
      [] opt = "LogPayloadSize"             -> "payload_size"
      [] opt = "LogServiceName"             -> "service_name"
      [] opt = "LogURL"                     -> "url"
      [] opt = "LogPartnerIDs"              -> "partner_ids"
      [] opt = "LogSessionID"               -> "session_id"
      [] opt = "LogQualityOfService"        -> "qos"

\* The catalog: the attribute of m each FieldOpt is to read.
AttrOf(opt, m) ==
    CASE opt \in {"LogMessageType", "LogMessageTypeAsString", "LogMessageTypeAsNum"}
                                            -> m.Type
      [] opt = "LogSource"                  -> m.Source
      [] opt = "LogDestination"             -> m.Destination
      [] opt = "LogTransactionUUID"         -> m.TransactionUUID
      [] opt = "LogContentType"             -> m.ContentType
      [] opt = "LogAccept"                  -> m.Accept
      [] opt = "LogStatus"                  -> m.Status
      [] opt = "LogRequestDeliveryResponse" -> m.RequestDeliveryResponse
      [] opt = "LogHeaders"                 -> m.Headers
      [] opt = "LogMetadata"                -> m.Metadata
      [] opt = "LogPath"                    -> m.Path
      [] opt \in {"LogPayload", "LogPayloadSize"} -> m.Payload
      [] opt = "LogServiceName"             -> m.ServiceName
      [] opt = "LogURL"                     -> m.URL
      [] opt = "LogPartnerIDs"              -> m.PartnerIDs
      [] opt = "LogSessionID"               -> m.SessionID
      [] opt = "LogQualityOfService"        -> m.QualityOfService

\* Field f holds exactly the attribute a, in the value shape the catalog gives
\* for opt.
Carries(f, opt, a) ==
    CASE opt \in {"LogMessageType", "LogMessageTypeAsNum", "LogQualityOfService"}
            -> f.Type = "Int64Type" /\ f.Integer = a
      [] opt = "LogMessageTypeAsString"
            -> /\ f.Type = "StringerType"
               /\ f.Interface.dyn = "wrp.MessageType"
               /\ f.Interface.val = a
      [] opt \in {"LogStatus", "LogRequestDeliveryResponse"}
            -> IF a.isNil
                 THEN f.Type = "ReflectType" /\ f.Interface.dyn = "nil"
                 ELSE f.Type = "Int64Type" /\ f.Integer = a.val
      [] opt \in {"LogHeaders", "LogPartnerIDs"}
            -> /\ f.Type = "ArrayMarshalerType"
               /\ f.Interface.dyn = "stringArray"
               /\ f.Interface.val = a
      [] opt = "LogMetadata"
            -> /\ f.Type = "ReflectType"
               /\ f.Interface.dyn = "map[string]string"
               /\ f.Interface.val = a
      [] opt = "LogPayload"
            -> /\ f.Type = "BinaryType"
               /\ f.Interface.dyn = "[]byte"
               /\ f.Interface.val = a
      [] OTHER
            -> f.Type = "StringType" /\ f.String = a

\* C4: every field a FieldOpt other than LogPayloadSize has produced in a call
\* is named as the catalog says and holds the corresponding attribute of the
\* call's message.
C4_ExtractorsRoundTrip ==
    \A g \in Extracting :
        \A i \in DOMAIN fields[g] :
            LET opt == ob[g].Fields[i]
            IN  opt # "LogPayloadSize" =>
                    /\ fields[g][i].Key = NameOf(opt)
                    /\ Carries(fields[g][i], opt, AttrOf(opt, msg[g]))

\* A call on a fully populated message has extracted two fields.
C4_Witness ==
    \E g \in Extracting :
        /\ pc[g] = "log"
        /\ msg[g] = MkMessage(TRUE, 1)
        /\ Len(fields[g]) >= 2
        /\ "LogPayloadSize" \notin {ob[g].Fields[i] : i \in DOMAIN fields[g]}

\* ------------------------------------------------------------------- C5

\* C5: a status or rdr field extracted in a call is present under its name; it
\* is the nil value (never an integer) when the attribute is nil and the
\* integer the attribute points to otherwise, so status = 0 and status unset
\* give different fields; and a call about to log holds one field per FieldOpt.
C5_NilPreserved ==
    \A g \in Extracting :
        /\ pc[g] = "log" => Len(fields[g]) = Len(ob[g].Fields)
        /\ \A i \in DOMAIN fields[g] :
              LET opt == ob[g].Fields[i]
                  f   == fields[g][i]
                  p   == AttrOf(opt, msg[g])
              IN  opt \in {"LogStatus", "LogRequestDeliveryResponse"} =>
                    /\ f.Key = NameOf(opt)
                    /\ p.isNil =>
                          /\ f.Type = "ReflectType"
                          /\ f.Interface = NilInterface
                          /\ f # ZapInt(NameOf(opt), 0)
                    /\ ~p.isNil =>
                          /\ f.Type = "Int64Type"
                          /\ f.Integer = p.val
                          /\ f.Interface = NilInterface

\* A status of 0 has been logged and a call with status unset is about to log.
C5_Witness ==
    \E g \in Extracting, i \in 1..MaxFields :
        /\ pc[g] = "log"
        /\ i <= Len(ob[g].Fields)
        /\ ob[g].Fields[i] = "LogStatus"
        /\ msg[g].Status.isNil
        /\ Len(recorded) = 1
        /\ recorded[1].Context[i].Type = "Int64Type"
        /\ recorded[1].Context[i].Integer = 0

\* ------------------------------------------------------------------- C6

\* C6: the payload_size field of a call about to log is the integer len of the
\* message's payload (0 for an empty or nil payload), and equals the length of
\* the blob in the payload field of the same call.
C6_PayloadSize ==
    \A g \in Extracting :
        pc[g] = "log" =>
            /\ Len(fields[g]) = Len(ob[g].Fields)
            /\ \A j \in DOMAIN fields[g] :
                  ob[g].Fields[j] = "LogPayloadSize" =>
                    /\ fields[g][j].Key = "payload_size"
                    /\ fields[g][j].Type = "Int64Type"
                    /\ fields[g][j].Integer = Len(msg[g].Payload.elems)
                    /\ msg[g].Payload.isNil => fields[g][j].Integer = 0
                    /\ \A i \in DOMAIN fields[g] :
                          ob[g].Fields[i] = "LogPayload" =>
                            fields[g][j].Integer = Len(fields[g][i].Interface.val.elems)

\* A payload and its size of 0 have been logged for a message without payload,
\* and a call on a message with payload bytes is about to log both.
C6_Witness ==
    \E g \in Extracting :
        /\ pc[g] = "log"
        /\ {"LogPayload", "LogPayloadSize"} = {ob[g].Fields[i] : i \in DOMAIN ob[g].Fields}
        /\ Len(msg[g].Payload.elems) > 0
        /\ Len(recorded) = 1
        /\ \E j \in DOMAIN recorded[1].Context :
              /\ recorded[1].Context[j].Key = "payload_size"
              /\ recorded[1].Context[j].Integer = 0

\* ------------------------------------------------------------------- C7

\* The attributes of wrp.Message as the consistency test reads them: the Go
\* name of each struct field with its JSON name.
MessageSchema ==
    { <<"Type", "msg_type">>, <<"Source", "source">>, <<"Destination", "dest">>,
      <<"TransactionUUID", "transaction_uuid">>, <<"ContentType", "content_type">>,
      <<"Accept", "accept">>, <<"Status", "status">>,
      <<"RequestDeliveryResponse", "rdr">>, <<"Headers", "headers">>,
      <<"Metadata", "metadata">>, <<"Spans", "spans">>,
      <<"IncludeSpans", "include_spans">>, <<"Path", "path">>,
      <<"Payload", "payload">>, <<"ServiceName", "service_name">>,
      <<"URL", "url">>, <<"PartnerIDs", "partner_ids">>,
      <<"SessionID", "session_id">>, <<"QualityOfService", "qos">> }

\* The attributes the consistency test leaves out.
Ignored == {"Spans", "IncludeSpans"}

SchemaNames == {a[2] : a \in MessageSchema}

\* The field names the catalog emits: the key each FieldOpt gives its field
\* (here on the zero message; the keys of the fields of every other message
\* are those of the calls in flight).
CatalogNames ==
    {Apply(AllFieldOpts[i], MkMessage(FALSE, 0)).Key : i \in DOMAIN AllFieldOpts}

\* C7 as stated: the names the catalog emits are exactly the names of the
\* schema's attributes.
C7_NamesAreExactlySchema ==
    /\ \A g \in Extracting : \A i \in DOMAIN fields[g] : fields[g][i].Key \in SchemaNames
    /\ CatalogNames = SchemaNames

\* C7 amended: every field a call extracts is named after a schema attribute or
\* is payload_size, which names none; every schema attribute but Spans and
\* IncludeSpans has a FieldOpt emitting its JSON name, and those two have none.
C7_NamesMatchSchemaButPayloadSizeAndSpans ==
    LET names   == CatalogNames
        read    == {a[2] : a \in {b \in MessageSchema : b[1] \notin Ignored}}
        skipped == {a[2] : a \in {b \in MessageSchema : b[1] \in Ignored}}
    IN  /\ \A g \in Extracting : \A i \in DOMAIN fields[g] :
              fields[g][i].Key \in read \cup {"payload_size"}
        /\ names \ {"payload_size"} = read
        /\ "payload_size" \in names
        /\ "payload_size" \notin SchemaNames
        /\ skipped \cap names = {}

\* A call is about to log a payload_size field.
C7_Witness ==
    \E g \in Extracting :
        /\ pc[g] = "log"
        /\ \E i \in DOMAIN fields[g] : fields[g][i].Key = "payload_size"

\* ------------------------------------------------------------------- C8

\* C8: in every step of concurrent callers the Observer is unchanged, at most
\* one goroutine's frame changes, a returning call with a Logger appends
\* exactly the entry extracted from its own message, no other step touches the
\* log, and the log holds one entry per returned call.
C8_ConcurrentCallsIndependent ==
    [][ /\ observer' = observer
        /\ Cardinality({g \in Goroutines : Frame(g)' # Frame(g)}) <= 1
        /\ \A g \in Goroutines : pc[g] # "idle" => ob[g] = observer
        /\ \A g \in Goroutines :
              (Returns(g) /\ observer.Logger # NilLogger) =>
                  recorded' = Append(recorded, Expected(observer, msg[g]))
        /\ (\A g \in Goroutines : ~(Returns(g) /\ observer.Logger # NilLogger)) =>
              recorded' = recorded
        /\ observer.Logger # NilLogger => Len(recorded') = Returned' ]_vars

\* Two calls with different messages are in flight at once, one about to log
\* and the other in the middle of its loop.
C8_Witness ==
    \E g, h \in Goroutines :
        /\ g # h
        /\ pc[g] = "log"
        /\ pc[h] = "range"
        /\ msg[g] # msg[h]
        /\ fields[h] # << >>
        /\ Len(fields[h]) < Len(ob[h].Fields)

\* ------------------------------------------------------------------- C9

\* C9: every logged entry holds one field per configured FieldOpt, none
\* dropped or merged; the field of the as-num FieldOpt is an integer named
\* msg_type, the field of the as-string FieldOpt a Stringer of the message type
\* named msg_type, each at its configured place, also when both are configured;
\* a call about to log holds the message's own type in both.
C9_DuplicateNamesPassThrough ==
    /\ \A k \in DOMAIN recorded :
          /\ Len(recorded[k].Context) = Len(observer.Fields)
          /\ \A i \in DOMAIN observer.Fields :
                LET opt == observer.Fields[i]
                    f   == recorded[k].Context[i]
                IN  /\ opt \in {"LogMessageType", "LogMessageTypeAsNum"} =>
                          f.Key = "msg_type" /\ f.Type = "Int64Type"
                    /\ opt = "LogMessageTypeAsString" =>
                          /\ f.Key = "msg_type"
                          /\ f.Type = "StringerType"
                          /\ f.Interface.dyn = "wrp.MessageType"
    /\ \A g \in Extracting :
          pc[g] = "log" =>
              /\ Len(fields[g]) = Len(ob[g].Fields)
              /\ \A i \in DOMAIN fields[g] :
                    LET opt == ob[g].Fields[i]
                        f   == fields[g][i]
                    IN  /\ opt \in {"LogMessageType", "LogMessageTypeAsNum"} =>
                              f.Integer = msg[g].Type
                        /\ opt = "LogMessageTypeAsString" =>
                              f.Interface = Iface("wrp.MessageType", msg[g].Type)

\* An Observer with the as-string and the as-num FieldOpt, in that order, has
\* logged an entry with two fields of the same name and different types.
C9_Witness ==
    /\ observer.Fields = <<"LogMessageTypeAsString", "LogMessageTypeAsNum">>
    /\ Len(recorded) >= 1
    /\ Len(recorded[1].Context) = 2
    /\ recorded[1].Context[1].Key = recorded[1].Context[2].Key
    /\ recorded[1].Context[1].Type = "StringerType"
    /\ recorded[1].Context[2].Type = "Int64Type"

\* ------------------------------------------------------------------ C10

\* C10: a call about to log holds one field per configured FieldOpt, and the
\* headers, partner_ids and metadata fields of a message whose list or map is
\* empty or nil are present under their names holding a list or map with no
\* element.
C10_EmptyContainersPresent ==
    \A g \in Extracting :
        pc[g] = "log" =>
            /\ Len(fields[g]) = Len(ob[g].Fields)
            /\ \A i \in DOMAIN fields[g] :
                  LET opt == ob[g].Fields[i]
                      f   == fields[g][i]
                      a   == AttrOf(opt, msg[g])
                  IN  /\ (opt \in {"LogHeaders", "LogPartnerIDs"} /\ Len(a.elems) = 0) =>
                            /\ f.Key = NameOf(opt)
                            /\ f.Type = "ArrayMarshalerType"
                            /\ f.Interface.dyn = "stringArray"
                            /\ Len(f.Interface.val.elems) = 0
                      /\ (opt = "LogMetadata" /\ a.kv = {}) =>
                            /\ f.Key = NameOf(opt)
                            /\ f.Type = "ReflectType"
                            /\ f.Interface.dyn = "map[string]string"
                            /\ f.Interface.val.kv = {}

\* A call on the zero message is about to log its headers and metadata fields.
C10_Witness ==
    \E g \in Extracting :
        /\ pc[g] = "log"
        /\ msg[g].Headers.isNil
        /\ msg[g].Metadata.isNil
        /\ {"LogHeaders", "LogMetadata"} = {ob[g].Fields[i] : i \in DOMAIN ob[g].Fields}
        /\ Len(fields[g]) = 2

====
